---- MODULE Spec2Model ----
(***************************************************************************)
(* A model of HashTable<ItemT> of general/hash.hpp: a fixed-size chained   *)
(* hash table whose items are found through unordered pairs (Hashed2) or   *)
(* quadruples (Hashed4) of integers, with automatic id assignment, an      *)
(* id -> item index, deletion and an iterator over the touched buckets.    *)
(*                                                                         *)
(* Pointers are handles: NULL is 0, the items allocated by the table are   *)
(* 1..MaxItems, FOREIGN is an item the table never allocated, WILD is what *)
(* an out-of-bounds read may produce.  ints are 32-bit two's complement.   *)
(***************************************************************************)
EXTENDS Integers, Sequences, FiniteSets, TLC

VARIABLES
    pc,           \* "new" (before the constructor), "ready", "error" (aborted),
                  \* "destroyed" (after the destructor)
    kind,         \* 2: ItemT follows Hashed2, 4: ItemT follows Hashed4
    mask,         \* HashTable::mask
    table,        \* HashTable::table, bucket index -> first item of the chain
    new_bin,      \* HashTable::new_bin, bucket index -> 1 iff not in used_bins
    used_bins,    \* HashTable::used_bins
    heap,         \* the items allocated with new and not yet deleted
    id_gen,       \* HashTable::id_gen
    id_to_item,   \* HashTable::id_to_item (id k is at position k+1)
    nqueries,     \* HashTable::nqueries
    ncollisions,  \* HashTable::ncollisions
    it,           \* the Iterator, if one exists: next_bin and cur_item
    visited,      \* the items the iterator has yielded, in order
    last          \* the last call made and what it returned

vars == <<pc, kind, mask, table, new_bin, used_bins, heap, id_gen, id_to_item,
          nqueries, ncollisions, it, visited, last>>

tvars == <<table, new_bin, used_bins, heap, id_gen, id_to_item>>

----------------------------------------------------------------------------
(* Bounds of the model *)

MaxLog == 1        \* tables of 2^0 .. 2^MaxLog buckets
MaxKey == 0        \* the 2-key methods are called with keys -1 .. MaxKey
MaxItems == 3      \* at most this many items are allocated at a time
MaxQueries == 3    \* Get and Peek are enabled while nqueries < MaxQueries
MaxCtorSize == 70  \* the constructor is tried on -MaxCtorSize .. MaxCtorSize
MaxSortKey == 2    \* sort4 alone is tried on -MaxSortKey .. MaxSortKey
MaxHashKey == 3    \* hash alone is tried on -MaxHashKey .. MaxHashKey and on
                   \* the keys next to the ends of int

Keys2 == (0 - 1) .. MaxKey
\* The 4-key methods are called with keys 0 and 1: sort4 is a network of
\* compare-and-swap steps, and such a network sorts every input if it sorts
\* every input of zeros and ones.
Keys4 == {0, 1}
RECURSIVE Pow2(_)
Pow2(k) == IF k = 0 THEN 1 ELSE 2 * Pow2(k - 1)
TableSizes == { Pow2(k) : k \in 0 .. MaxLog }
CtorSizes == (0 - MaxCtorSize) .. MaxCtorSize

NULL == 0
Handles == 1 .. MaxItems
FOREIGN == MaxItems + 1
WILD == MaxItems + 2
TRAP == MaxItems + 3

----------------------------------------------------------------------------
(* 32-bit int arithmetic *)

IntMax == 2147483647
IntMin == (0 - IntMax) - 1

\* a + b in a 32-bit int, wrapping around
AddW(a, b) ==
    IF a > 0 /\ b > 0 /\ a > IntMax - b THEN (a + IntMin) + (b + IntMin)
    ELSE IF a < 0 /\ b < 0 /\ a < IntMin - b THEN (a - IntMin) + (b - IntMin)
    ELSE a + b

\* the four bytes of the two's complement form of a, the lowest first
Bytes(a) ==
    <<a % 256, (a \div 256) % 256, (a \div 65536) % 256, (a \div 16777216) % 256>>

\* c * p in a 32-bit int, wrapping around: the bytes are multiplied column
\* by column and what is carried beyond bit 31 is dropped
MulW(c, p) ==
    LET x == Bytes(c)
        y == Bytes(p)
        s0 == x[1] * y[1]
        s1 == x[1] * y[2] + x[2] * y[1] + (s0 \div 256)
        s2 == x[1] * y[3] + x[2] * y[2] + x[3] * y[1] + (s1 \div 256)
        s3 == x[1] * y[4] + x[2] * y[3] + x[3] * y[2] + x[4] * y[1] + (s2 \div 256)
        top == s3 % 256
    IN  (IF top >= 128 THEN top - 256 ELSE top) * 16777216
          + (s2 % 256) * 65536 + (s1 % 256) * 256 + (s0 % 256)

\* a & b on two's complement ints
RECURSIVE BitAnd(_, _)
BitAnd(a, b) ==
    IF a = 0 \/ b = 0 THEN 0
    ELSE IF a = -1 THEN b
    ELSE IF b = -1 THEN a
    ELSE (a % 2) * (b % 2) + 2 * BitAnd(a \div 2, b \div 2)

----------------------------------------------------------------------------
(* detail::sort3, detail::sort4 and the swap of the 2-key methods *)

\* a bug: the keys are used in the order given
Swap2Never(p1, p2) == <<p1, p2>>

Swap2(p1, p2) == IF p1 > p2 THEN <<p2, p1>> ELSE <<p1, p2>>

\* a bug: b and c are not compared
sort3SkipsLast(a, b, c) ==
    LET s1 == IF a > b THEN <<b, a, c>> ELSE <<a, b, c>>
    IN  IF s1[1] > s1[3] THEN <<s1[3], s1[2], s1[1]>> ELSE s1

sort3(a, b, c) ==
    LET s1 == IF a > b THEN <<b, a, c>> ELSE <<a, b, c>>
        s2 == IF s1[1] > s1[3] THEN <<s1[3], s1[2], s1[1]>> ELSE s1
        s3 == IF s2[2] > s2[3] THEN <<s2[1], s2[3], s2[2]>> ELSE s2
    IN  s3

\* a bug: a is not compared with d
sort4SkipsD(a, b, c, d) ==
    LET s1 == IF a > b THEN <<b, a, c, d>> ELSE <<a, b, c, d>>
        s2 == IF s1[1] > s1[3] THEN <<s1[3], s1[2], s1[1], s1[4]>> ELSE s1
        t  == sort3(s2[2], s2[3], s2[4])
    IN  <<s2[1], t[1], t[2], t[3]>>

sort4(a, b, c, d) ==
    LET s1 == IF a > b THEN <<b, a, c, d>> ELSE <<a, b, c, d>>
        s2 == IF s1[1] > s1[3] THEN <<s1[3], s1[2], s1[1], s1[4]>> ELSE s1
        s3 == IF s2[1] > s2[4] THEN <<s2[4], s2[2], s2[3], s2[1]>> ELSE s2
        t  == sort3(s3[2], s3[3], s3[4])
    IN  <<s3[1], t[1], t[2], t[3]>>

----------------------------------------------------------------------------
(* The hash functions *)

HashC1 == 984120265
HashC2 == 125965121
HashC3 == 495698413

hash2(p1, p2) ==
    BitAnd(AddW(MulW(HashC1, p1), MulW(HashC2, p2)), mask)

hash3(p1, p2, p3) ==
    BitAnd(AddW(AddW(MulW(HashC1, p1), MulW(HashC2, p2)), MulW(HashC3, p3)), mask)

\* c * p, c > 0, is outside int; a + b is outside int
MulOverflows(c, p) == p > IntMax \div c \/ p < (IntMin + c - 1) \div c
AddOverflows(a, b) ==
    \/ a > 0 /\ b > 0 /\ a > IntMax - b
    \/ a < 0 /\ b < 0 /\ a < IntMin - b

\* an operation of the expression of hash is outside int.  The operands are
\* int, so this is signed overflow: undefined behaviour.
hash2Overflows(p1, p2) ==
    \/ MulOverflows(HashC1, p1)
    \/ MulOverflows(HashC2, p2)
    \/ AddOverflows(MulW(HashC1, p1), MulW(HashC2, p2))

hash3Overflows(p1, p2, p3) ==
    \/ hash2Overflows(p1, p2)
    \/ MulOverflows(HashC3, p3)
    \/ AddOverflows(AddW(MulW(HashC1, p1), MulW(HashC2, p2)), MulW(HashC3, p3))

\* hash(const Hashed2<ItemT>*) and hash(const Hashed4<ItemT>*)
hashItem(item) ==
    IF kind = 2 THEN hash2(item.p1, item.p2)
    ELSE hash3(item.p1, item.p2, item.p3)

----------------------------------------------------------------------------
(* SearchList: the item found (or NULL) and the two counters' increments.    *)
(* h holds the items the chain runs through.                               *)

RECURSIVE SearchWalk2(_, _, _, _, _)
SearchWalk2(h, item, p1, p2, nc) ==
    IF item = NULL THEN [node |-> NULL, nc |-> nc]
    ELSE IF h[item].p1 = p1 /\ h[item].p2 = p2 THEN [node |-> item, nc |-> nc]
    ELSE SearchWalk2(h, h[item].next, p1, p2, nc + 1)

\* a bug: only the first item of the chain is compared
SearchList2HeadOnly(h, item, p1, p2) ==
    [node |-> IF item # NULL /\ h[item].p1 = p1 /\ h[item].p2 = p2 THEN item ELSE NULL,
     nq |-> 1, nc |-> 0]

SearchList2(h, item, p1, p2) ==
    LET w == SearchWalk2(h, item, p1, p2, 0)
    IN  [node |-> w.node, nq |-> 1, nc |-> w.nc]

RECURSIVE SearchWalk3(_, _, _, _, _, _)
SearchWalk3(h, item, p1, p2, p3, nc) ==
    IF item = NULL THEN [node |-> NULL, nc |-> nc]
    ELSE IF h[item].p1 = p1 /\ h[item].p2 = p2 /\ h[item].p3 = p3
         THEN [node |-> item, nc |-> nc]
    ELSE SearchWalk3(h, h[item].next, p1, p2, p3, nc + 1)

\* a bug: p3 is not compared
SearchList3IgnoresP3(h, item, p1, p2, p3) == SearchList2(h, item, p1, p2)

SearchList3(h, item, p1, p2, p3) ==
    LET w == SearchWalk3(h, item, p1, p2, p3, 0)
    IN  [node |-> w.node, nq |-> 1, nc |-> w.nc]

----------------------------------------------------------------------------
(* The constructor *)

\* mfem_error() prints the message and aborts the program
mfem_error(msg) == "error"

\* the members after HashTable(size); nothing is allocated when it aborts
HashTableCtor(size) ==
    LET m == size - 1
    IN  IF BitAnd(size, m) # 0
        THEN [pc |-> mfem_error("Hash table size must be a power of two."),
              mask |-> m, table |-> <<>>, new_bin |-> <<>>]
        ELSE [pc |-> "ready", mask |-> m,
              table |-> [b \in 0 .. size - 1 |-> NULL],
              new_bin |-> [b \in 0 .. size - 1 |-> 1]]

\* a call, what it returned and whether it allocated an item
Returned(op, node) == [op |-> op, ret |-> node, created |-> FALSE]
Created(op, node) == [op |-> op, ret |-> node, created |-> TRUE]
NoIterator == [live |-> FALSE, next_bin |-> 0, cur_item |-> NULL]
NewIdGen == [next |-> 0, reusable |-> <<>>]

\* what the constructor leaves, for an item type of kind k
Constructed(size, k) ==
    LET c == HashTableCtor(size)
    IN  /\ pc = c.pc
        /\ kind = k
        /\ mask = c.mask
        /\ table = c.table
        /\ new_bin = c.new_bin
        /\ used_bins = <<>>
        /\ heap = <<>>
        /\ id_gen = NewIdGen
        /\ id_to_item = <<>>
        /\ nqueries = 0
        /\ ncollisions = 0
        /\ it = NoIterator
        /\ visited = <<>>
        /\ last = Returned("HashTable", NULL)

\* a table built with a valid size
Init == \E size \in TableSizes, k \in {2, 4} : Constructed(size, k)

----------------------------------------------------------------------------
(* IdGenerator and Array (idgenerator.hpp, array.hpp) *)

RemoveAt(s, k) == SubSeq(s, 1, k - 1) \o SubSeq(s, k + 1, Len(s))

\* IdGenerator::Get(): a released id if there is one, else the next unused one;
\* which released id is not fixed.  The outcomes, each with the generator after.
IdGenGet(g) ==
    IF g.reusable # <<>>
    THEN { [id |-> g.reusable[k], gen |-> [g EXCEPT !.reusable = RemoveAt(@, k)]] :
             k \in 1 .. Len(g.reusable) }
    ELSE { [id |-> g.next, gen |-> [g EXCEPT !.next = @ + 1]] }

\* IdGenerator::Reuse(id)
IdGenReuse(g, id) == [g EXCEPT !.reusable = Append(@, id)]

\* Array::SetSize(nsize, initval): new slots are filled with initval
ArraySetSize(arr, nsize, initval) ==
    IF nsize <= Len(arr) THEN SubSeq(arr, 1, nsize)
    ELSE arr \o [k \in 1 .. nsize - Len(arr) |-> initval]

\* Array::operator[] (read): the values a read of slot i may give.  The index
\* is not checked: outside 0 .. Size()-1 the read is out of bounds, and gives
\* NULL, a pointer to anything, or a trap.
ArrayRead(arr, i) ==
    IF 0 <= i /\ i < Len(arr) THEN {arr[i + 1]} ELSE {NULL, WILD, TRAP}

----------------------------------------------------------------------------
(* Get and Peek *)

Live == DOMAIN heap
Iterating == it.live

\* new ItemT(id): the address is one that is not in use
NewHandle == CHOOSE h \in Handles \ Live : \A g \in Handles \ Live : h <= g

\* The stored key of an item
KeyOf(item) == IF kind = 2 THEN <<item.p1, item.p2>> ELSE <<item.p1, item.p2, item.p3>>

\* a bug: the bucket is appended to used_bins whenever it was empty
InsertAppendsEmpty(idx, item) ==
    LET newitem == NewHandle
    IN  /\ heap' = [h \in Live \cup {newitem} |->
                      IF h = newitem THEN [item EXCEPT !.next = table[idx]] ELSE heap[h]]
        /\ table' = [table EXCEPT ![idx] = newitem]
        /\ IF table[idx] = NULL
           THEN /\ used_bins' = Append(used_bins, idx)
                /\ new_bin' = [new_bin EXCEPT ![idx] = 0]
           ELSE UNCHANGED <<used_bins, new_bin>>
        /\ id_to_item' =
             [ (IF Len(id_to_item) <= item.id
                THEN ArraySetSize(id_to_item, item.id + 1, NULL)
                ELSE id_to_item) EXCEPT ![item.id + 1] = newitem ]

\* "not found - create a new one" of both Get methods: item is the new item
\* with its id and key set, idx its bucket
Insert(idx, item) ==
    LET newitem == NewHandle
    IN  /\ heap' = [h \in Live \cup {newitem} |->
                      IF h = newitem THEN [item EXCEPT !.next = table[idx]] ELSE heap[h]]
        /\ table' = [table EXCEPT ![idx] = newitem]
        /\ IF new_bin[idx] = 1
           THEN /\ used_bins' = Append(used_bins, idx)
                /\ new_bin' = [new_bin EXCEPT ![idx] = 0]
           ELSE UNCHANGED <<used_bins, new_bin>>
        /\ id_to_item' =
             [ (IF Len(id_to_item) <= item.id
                THEN ArraySetSize(id_to_item, item.id + 1, NULL)
                ELSE id_to_item) EXCEPT ![item.id + 1] = newitem ]

\* a bug: the advances are not counted
CountQueriesOnly(s) ==
    /\ nqueries' = nqueries + s.nq
    /\ ncollisions' = ncollisions

Count(s) == /\ nqueries' = nqueries + s.nq
            /\ ncollisions' = ncollisions + s.nc

\* "search for the item in the hashtable" of Get(p1, p2), on the buckets tb
\* and the items h: the swapped key, its bucket and what SearchList finds
GetSearch2(tb, h, p1, p2) ==
    LET k == Swap2(p1, p2)
        idx == hash2(k[1], k[2])
    IN  [k |-> k, idx |-> idx, s |-> SearchList2(h, tb[idx], k[1], k[2])]

\* the same of Get(p1, p2, p3, p4)
GetSearch4(tb, h, p1, p2, p3, p4) ==
    LET k == sort4(p1, p2, p3, p4)
        idx == hash3(k[1], k[2], k[3])
    IN  [k |-> k, idx |-> idx, s |-> SearchList3(h, tb[idx], k[1], k[2], k[3])]

\* ItemT* Get(int p1, int p2)
Get2(p1, p2) ==
    /\ pc = "ready" /\ kind = 2 /\ ~Iterating /\ nqueries < MaxQueries
    /\ LET f == GetSearch2(table, heap, p1, p2)
           k == f.k
           idx == f.idx
           s == f.s
       IN  /\ Count(s)
           /\ IF s.node # NULL
              THEN /\ last' = Returned("Get", s.node)
                   /\ UNCHANGED tvars
              ELSE /\ Cardinality(Live) < MaxItems
                   /\ \E g \in IdGenGet(id_gen) :
                        /\ id_gen' = g.gen
                        /\ Insert(idx, [id |-> g.id, p1 |-> k[1], p2 |-> k[2],
                                        next |-> NULL])
                        /\ last' = Created("Get", NewHandle)
    /\ UNCHANGED <<pc, kind, mask, it, visited>>

\* ItemT* Get(int p1, int p2, int p3, int p4)
Get4(p1, p2, p3, p4) ==
    /\ pc = "ready" /\ kind = 4 /\ ~Iterating /\ nqueries < MaxQueries
    /\ LET f == GetSearch4(table, heap, p1, p2, p3, p4)
           k == f.k
           idx == f.idx
           s == f.s
       IN  /\ Count(s)
           /\ IF s.node # NULL
              THEN /\ last' = Returned("Get", s.node)
                   /\ UNCHANGED tvars
              ELSE /\ Cardinality(Live) < MaxItems
                   /\ \E g \in IdGenGet(id_gen) :
                        /\ id_gen' = g.gen
                        /\ Insert(idx, [id |-> g.id, p1 |-> k[1], p2 |-> k[2],
                                        p3 |-> k[3], next |-> NULL])
                        /\ last' = Created("Get", NewHandle)
    /\ UNCHANGED <<pc, kind, mask, it, visited>>

\* what Peek(p1, p2) finds on the buckets tb and the items h: SearchList on
\* the bucket of the swapped key
PeekSearch2(tb, h, p1, p2) ==
    LET k == Swap2(p1, p2)
    IN  SearchList2(h, tb[hash2(k[1], k[2])], k[1], k[2])

\* what Peek(p1, p2, p3, p4) finds
PeekSearch4(tb, h, p1, p2, p3, p4) ==
    LET k == sort4(p1, p2, p3, p4)
    IN  SearchList3(h, tb[hash3(k[1], k[2], k[3])], k[1], k[2], k[3])

\* ItemT* Peek(int p1, int p2) const
Peek2(p1, p2) ==
    /\ pc = "ready" /\ kind = 2 /\ ~Iterating /\ nqueries < MaxQueries
    /\ LET s == PeekSearch2(table, heap, p1, p2)
       IN  /\ Count(s)
           /\ last' = Returned("Peek", s.node)
    /\ UNCHANGED <<pc, kind, mask, it, visited>>
    /\ UNCHANGED tvars

\* ItemT* Peek(int p1, int p2, int p3, int p4) const
Peek4(p1, p2, p3, p4) ==
    /\ pc = "ready" /\ kind = 4 /\ ~Iterating /\ nqueries < MaxQueries
    /\ LET s == PeekSearch4(table, heap, p1, p2, p3, p4)
       IN  /\ Count(s)
           /\ last' = Returned("Peek", s.node)
    /\ UNCHANGED <<pc, kind, mask, it, visited>>
    /\ UNCHANGED tvars

\* the ids Peek(id) is called with: those of the index, and the first two
\* outside it on either side
Ids == (0 - 1) .. Len(id_to_item)

\* ItemT* Peek(int id) const
PeekId(id) ==
    /\ pc = "ready" /\ ~Iterating
    /\ \E r \in ArrayRead(id_to_item, id) :
         /\ pc' = IF r = TRAP THEN "error" ELSE pc
         /\ last' = Returned("PeekId", r)
    /\ UNCHANGED <<kind, mask, nqueries, ncollisions, it, visited>>
    /\ UNCHANGED tvars

----------------------------------------------------------------------------
(* Delete *)

\* the walk of Delete along the chain of bucket idx: prev is the item whose
\* next field ptr points to (NULL: ptr points to table[idx]).  Pointers are
\* compared, not keys.
RECURSIVE DeleteWalk(_, _, _)
RECURSIVE DeleteWalkToEnd(_, _, _)
\* a bug: reaching the end of the chain is not an error
DeleteWalkToEnd(idx, prev, item) ==
    LET cur == IF prev = NULL THEN table[idx] ELSE heap[prev].next
    IN  IF cur = NULL \/ cur = item THEN [found |-> TRUE, prev |-> prev]
        ELSE DeleteWalkToEnd(idx, cur, item)

DeleteWalk(idx, prev, item) ==
    LET cur == IF prev = NULL THEN table[idx] ELSE heap[prev].next
    IN  IF cur = NULL THEN [found |-> FALSE, prev |-> prev]
        ELSE IF cur = item THEN [found |-> TRUE, prev |-> prev]
        ELSE DeleteWalk(idx, cur, item)

\* the items Delete may be handed that are not the table's: a copy of a
\* live item, and an item with a fixed key
ForeignItems ==
    { heap[h] : h \in Live } \cup
    { IF kind = 2 THEN [id |-> 0, p1 |-> 0, p2 |-> 0, next |-> NULL]
      ELSE [id |-> 0, p1 |-> 0, p2 |-> 0, p3 |-> 0, next |-> NULL] }

\* a bug: the slot keeps pointing to the deleted item
ClearSlotNever(arr, id) == arr

\* "remove from the (ID -> item) map"
ClearSlot(arr, id) == [arr EXCEPT ![id + 1] = NULL]

\* a bug: the id is not given back
ReleaseIdNever(g, id) == g

\* "reuse the item ID in the future"
ReleaseId(g, id) == IdGenReuse(g, id)

\* a bug: the unlinking writes NULL, not item->next
DeleteCutsChain(item, rec) ==
    /\ pc = "ready" /\ ~Iterating
    /\ LET idx == hashItem(rec)
           w == DeleteWalk(idx, NULL, item)
       IN  IF ~w.found
           THEN /\ pc' = mfem_error("HashTable<>::Delete: item not found!")
                /\ UNCHANGED tvars
           ELSE /\ pc' = pc
                /\ table' = IF w.prev = NULL THEN [table EXCEPT ![idx] = NULL]
                            ELSE table
                /\ heap' = [h \in Live \ {item} |->
                              IF h = w.prev THEN [heap[h] EXCEPT !.next = NULL]
                              ELSE heap[h]]
                /\ id_to_item' = ClearSlot(id_to_item, rec.id)
                /\ id_gen' = ReleaseId(id_gen, rec.id)
                /\ UNCHANGED <<new_bin, used_bins>>
    /\ last' = Returned("Delete", NULL)
    /\ UNCHANGED <<kind, mask, nqueries, ncollisions, it, visited>>

\* void Delete(ItemT* item), item pointing to the record rec
Delete(item, rec) ==
    /\ pc = "ready" /\ ~Iterating
    /\ LET idx == hashItem(rec)
           w == DeleteWalk(idx, NULL, item)
       IN  IF ~w.found
           THEN /\ pc' = mfem_error("HashTable<>::Delete: item not found!")
                /\ UNCHANGED tvars
           ELSE /\ pc' = pc
                /\ table' = IF w.prev = NULL THEN [table EXCEPT ![idx] = rec.next]
                            ELSE table
                /\ heap' = [h \in Live \ {item} |->
                              IF h = w.prev THEN [heap[h] EXCEPT !.next = rec.next]
                              ELSE heap[h]]
                /\ id_to_item' = ClearSlot(id_to_item, rec.id)
                /\ id_gen' = ReleaseId(id_gen, rec.id)
                /\ UNCHANGED <<new_bin, used_bins>>
    /\ last' = Returned("Delete", NULL)
    /\ UNCHANGED <<kind, mask, nqueries, ncollisions, it, visited>>

DeleteLive == \E item \in Live : Delete(item, heap[item])
DeleteForeign == \E rec \in ForeignItems : Delete(FOREIGN, rec)

----------------------------------------------------------------------------
(* The iterator *)

\* the loop "do we need to switch the next bin?"
RECURSIVE SwitchBin(_, _)
SwitchBin(nb, cur) ==
    IF cur = NULL /\ nb < Len(used_bins)
    THEN SwitchBin(nb + 1, table[used_bins[nb + 1]])
    ELSE [next_bin |-> nb, cur_item |-> cur]

\* a bug: the chain of the current item is not followed
IteratorNextSkipsChain(nb, cur) ==
    IF nb >= Len(used_bins) THEN [next_bin |-> nb, cur_item |-> NULL]
    ELSE SwitchBin(nb, NULL)

\* a bug: after the last bucket the iterator starts again at the first
IteratorNextWraps(nb, cur) ==
    IF nb >= Len(used_bins) THEN SwitchBin(0, NULL)
    ELSE SwitchBin(nb, IF cur # NULL THEN heap[cur].next ELSE cur)

\* void Iterator::next()
IteratorNext(nb, cur) ==
    IF nb >= Len(used_bins) THEN [next_bin |-> nb, cur_item |-> NULL]
    ELSE SwitchBin(nb, IF cur # NULL THEN heap[cur].next ELSE cur)

Yield(n) ==
    /\ it' = [live |-> TRUE, next_bin |-> n.next_bin, cur_item |-> n.cur_item]
    /\ visited' = IF n.cur_item # NULL THEN Append(visited, n.cur_item) ELSE visited

\* Iterator(HashTable<ItemT>& table).  The table must not be changed while
\* the iterator is in use: Get, Peek and Delete wait for IteratorEnd.
IteratorNew ==
    /\ pc = "ready" /\ ~Iterating
    /\ Yield(IteratorNext(0, NULL))
    /\ last' = Returned("Iterator", NULL)
    /\ UNCHANGED <<pc, kind, mask, nqueries, ncollisions>>
    /\ UNCHANGED tvars

\* Iterator &operator++()
IteratorInc ==
    /\ pc = "ready" /\ Iterating
    /\ Yield(IteratorNext(it.next_bin, it.cur_item))
    /\ last' = Returned("++", NULL)
    /\ UNCHANGED <<pc, kind, mask, nqueries, ncollisions>>
    /\ UNCHANGED tvars

\* the iterator goes out of scope
IteratorEnd ==
    /\ pc = "ready" /\ Iterating
    /\ it' = NoIterator
    /\ visited' = <<>>
    /\ last' = Returned("~Iterator", NULL)
    /\ UNCHANGED <<pc, kind, mask, nqueries, ncollisions>>
    /\ UNCHANGED tvars

----------------------------------------------------------------------------
(* The destructor *)

\* the values of the sequence q
Range(q) == { q[i] : i \in DOMAIN q }

\* "delete all items": for (Iterator it(*this); it; ) { tmp = it; ++it;
\* delete tmp; }, the iterator being at (nb, cur): the items deleted, in order.
\* ++it reads only the item about to be deleted and the heads of the buckets.
RECURSIVE DeleteAllItems(_, _, _)
DeleteAllItems(nb, cur, done) ==
    IF cur = NULL THEN done
    ELSE LET n == IteratorNext(nb, cur)
         IN  DeleteAllItems(n.next_bin, n.cur_item, Append(done, cur))

\* ~HashTable(): visited records the items the loop has deleted; the items
\* left in heap were never deleted.  The warning about the collisions is
\* output only.
Destructor ==
    /\ pc = "ready" /\ ~Iterating
    /\ LET first == IteratorNext(0, NULL)
           deleted == DeleteAllItems(first.next_bin, first.cur_item, <<>>)
       IN  /\ visited' = deleted
           /\ heap' = [h \in Live \ Range(deleted) |-> heap[h]]
    /\ table' = <<>>
    /\ new_bin' = <<>>
    /\ pc' = "destroyed"
    /\ last' = Returned("~HashTable", NULL)
    /\ UNCHANGED <<kind, mask, used_bins, id_gen, id_to_item, nqueries, ncollisions, it>>

----------------------------------------------------------------------------
(* The specification of a constructed table *)

Next ==
    \/ \E p1, p2 \in Keys2 : Get2(p1, p2)
    \/ \E p1, p2, p3, p4 \in Keys4 : Get4(p1, p2, p3, p4)
    \/ \E p1, p2 \in Keys2 : Peek2(p1, p2)
    \/ \E p1, p2, p3, p4 \in Keys4 : Peek4(p1, p2, p3, p4)
    \/ \E id \in Ids : PeekId(id)
    \/ DeleteLive
    \/ DeleteForeign
    \/ IteratorNew
    \/ IteratorInc
    \/ IteratorEnd

Spec == Init /\ [][Next]_vars

----------------------------------------------------------------------------
(* The specification of the constructor alone *)

InitCtor ==
    /\ pc = "new"
    /\ kind \in {2, 4}
    /\ mask = 0
    /\ table = <<>>
    /\ new_bin = <<>>
    /\ used_bins = <<>>
    /\ heap = <<>>
    /\ id_gen = NewIdGen
    /\ id_to_item = <<>>
    /\ nqueries = 0
    /\ ncollisions = 0
    /\ it = NoIterator
    /\ visited = <<>>
    /\ last = Returned("none", NULL)

\* HashTable(int size)
Construct(size) ==
    /\ pc = "new"
    /\ LET c == HashTableCtor(size)
       IN  /\ pc' = c.pc
           /\ mask' = c.mask
           /\ table' = c.table
           /\ new_bin' = c.new_bin
    /\ nqueries' = 0
    /\ ncollisions' = 0
    /\ last' = Returned("HashTable", NULL)
    /\ UNCHANGED <<kind, used_bins, heap, id_gen, id_to_item, it, visited>>

NextCtor == \E size \in CtorSizes : Construct(size)

SpecCtor == InitCtor /\ [][NextCtor]_vars

----------------------------------------------------------------------------
(* The specification of a table that is filled, emptied and destroyed *)

NextLife ==
    \/ \E p1, p2 \in Keys2 : Get2(p1, p2)
    \/ \E p1, p2, p3, p4 \in Keys4 : Get4(p1, p2, p3, p4)
    \/ DeleteLive
    \/ Destructor

SpecLife == Init /\ [][NextLife]_vars

----------------------------------------------------------------------------
(* The specification of the hash functions alone: hash is called with the   *)
(* canonical keys of HashKeys, on a table of each size                      *)

HashKeys ==
    ((0 - MaxHashKey) .. MaxHashKey) \cup {IntMin, IntMin + 1, IntMax - 1, IntMax}

HashArgs ==
    IF kind = 2 THEN { k \in HashKeys \X HashKeys : k[1] <= k[2] }
    ELSE { k \in HashKeys \X HashKeys \X HashKeys : k[1] <= k[2] /\ k[2] <= k[3] }

\* what a call of hash with key k may do: return the index; where the
\* arithmetic overflows, a build wraps around and returns the index of the
\* wrapped sum, or traps
HashOutcomes(k) ==
    LET idx == IF kind = 2 THEN hash2(k[1], k[2]) ELSE hash3(k[1], k[2], k[3])
        ov == IF kind = 2 THEN hash2Overflows(k[1], k[2])
              ELSE hash3Overflows(k[1], k[2], k[3])
    IN  {[pc |-> "ready", ret |-> idx]} \cup
        (IF ov THEN {[pc |-> "error", ret |-> NULL]} ELSE {})

\* int hash(int p1, int p2) const, int hash(int p1, int p2, int p3) const
HashCall(k) ==
    /\ pc = "ready"
    /\ \E o \in HashOutcomes(k) :
         /\ pc' = o.pc
         /\ last' = [op |-> "hash", ret |-> o.ret, created |-> FALSE, key |-> k]
    /\ UNCHANGED <<kind, mask, nqueries, ncollisions, it, visited>>
    /\ UNCHANGED tvars

NextHash == \E k \in HashArgs : HashCall(k)

SpecHash == Init /\ [][NextHash]_vars

----------------------------------------------------------------------------
(* Vocabulary of the properties *)

\* the canonical form of a key, as the class documentation defines it: the
\* pair in ascending order; the three smallest of the four, ascending
Canon2(p1, p2) == <<IF p1 <= p2 THEN p1 ELSE p2, IF p1 <= p2 THEN p2 ELSE p1>>

\* the smaller and the larger of two values
Min2(a, b) == IF a <= b THEN a ELSE b
Max2(a, b) == IF a <= b THEN b ELSE a

\* the smallest of the four, then the two values that are neither the smallest
\* nor the largest, ascending
Canon4(p1, p2, p3, p4) ==
    <<Min2(Min2(p1, p2), Min2(p3, p4)),
      Min2(Max2(Min2(p1, p2), Min2(p3, p4)), Min2(Max2(p1, p2), Max2(p3, p4))),
      Max2(Max2(Min2(p1, p2), Min2(p3, p4)), Min2(Max2(p1, p2), Max2(p3, p4)))>>

\* the items of heap h whose stored key is k, and those whose id is id
WithKey(h, k) == { x \in DOMAIN h : KeyOf(h[x]) = k }
WithId(h, id) == { x \in DOMAIN h : h[x].id = id }

\* the arguments the key methods of the table are called with, and the
\* canonical key of arguments a
Args4 == Keys4 \X Keys4 \X Keys4 \X Keys4
Canon4Of == [a \in Args4 |-> Canon4(a[1], a[2], a[3], a[4])]
AllArgs == IF kind = 2 THEN Keys2 \X Keys2 ELSE Args4
Canon(a) == IF kind = 2 THEN Canon2(a[1], a[2]) ELSE Canon4Of[a]

\* the step is Get with arguments a
GetCall(a) == IF kind = 2 THEN Get2(a[1], a[2]) ELSE Get4(a[1], a[2], a[3], a[4])

\* the step is Peek with arguments a
PeekCall(a) == IF kind = 2 THEN Peek2(a[1], a[2]) ELSE Peek4(a[1], a[2], a[3], a[4])

\* the number of times v occurs in the sequence q
Occurs(q, v) == Cardinality({ i \in DOMAIN q : q[i] = v })

\* the items of the chain of bucket idx
RECURSIVE ChainFrom(_, _)
ChainFrom(h, item) == IF item = NULL THEN {} ELSE {item} \cup ChainFrom(h, h[item].next)
Chain(idx) == ChainFrom(heap, table[idx])

\* the chain that starts at item, as the sequence of its items
RECURSIVE ChainSeq(_, _)
ChainSeq(h, item) ==
    IF item = NULL THEN <<>> ELSE <<item>> \o ChainSeq(h, h[item].next)

\* the chains of the buckets of the list ub, one after the other
RECURSIVE ChainsOf(_, _, _)
ChainsOf(tb, h, ub) ==
    IF ub = <<>> THEN <<>>
    ELSE ChainSeq(h, tb[Head(ub)]) \o ChainsOf(tb, h, Tail(ub))

IsPrefix(q, r) == Len(q) <= Len(r) /\ SubSeq(r, 1, Len(q)) = q

RECURSIVE IsPow2(_)
IsPow2(n) == n = 1 \/ (n > 1 /\ n % 2 = 0 /\ IsPow2(n \div 2))

\* what Peek with arguments a finds on the buckets tb and the items h
PeekNode(tb, h, a) ==
    IF kind = 2 THEN PeekSearch2(tb, h, a[1], a[2]).node
    ELSE PeekSearch4(tb, h, a[1], a[2], a[3], a[4]).node

\* what the search of Get with arguments a finds
GetNode(tb, h, a) ==
    IF kind = 2 THEN GetSearch2(tb, h, a[1], a[2]).s.node
    ELSE GetSearch4(tb, h, a[1], a[2], a[3], a[4]).s.node

\* the step is a call of a method that searches a chain
QueryStep == nqueries' # nqueries

\* the step is a Get that has created an item
CreateStep == QueryStep /\ last'.op = "Get" /\ last'.created

\* the step is a Delete that did not abort
Deleted(item) == Delete(item, heap[item]) /\ pc' = "ready"

----------------------------------------------------------------------------
(* C1 *)

\* what C1 asks of a step
OrderIndependentStep ==
    /\ (QueryStep /\ last'.op = "Get") =>
         \A p1, p2 \in Keys2 :
            (p1 # p2 /\ Get2(p1, p2)) =>
               /\ last'.ret \in DOMAIN heap'
               /\ GetNode(table', heap', <<p2, p1>>) = last'.ret
               /\ PeekNode(table', heap', <<p2, p1>>) = last'.ret
               /\ PeekNode(table', heap', <<p1, p2>>) = last'.ret
    /\ (kind = 2 /\ pc = "ready") =>
         \A p1, p2 \in Keys2 :
            p1 < p2 =>
               PeekNode(table', heap', <<p1, p2>>) = PeekNode(table', heap', <<p2, p1>>)

\* C1: Get(p1,p2) and Get(p2,p1) return the same item, whichever is called
\* first and whether or not the item existed: after Get(p1,p2) has returned an
\* item, the search of Get(p2,p1) finds that item, and so do Peek(p2,p1) and
\* Peek(p1,p2); in every state Peek(p1,p2) and Peek(p2,p1) find the same.
OrderIndependent == [][OrderIndependentStep]_vars

\* a Get has found an existing item whose two keys differ
OrderIndependentWitness ==
    /\ kind = 2 /\ last.op = "Get" /\ ~last.created
    /\ heap[last.ret].p1 < heap[last.ret].p2

----------------------------------------------------------------------------
(* C2 *)

\* what C2 asks of a step
ThreeSmallestStep ==
    (QueryStep /\ kind = 4 /\ last'.op = "Get") =>
      \A a \in Args4 :
         Get4(a[1], a[2], a[3], a[4]) =>
            /\ last'.ret \in DOMAIN heap'
            /\ \A b \in Args4 :
                  (Canon4Of[b] = Canon4Of[a]) <=> (GetNode(table', heap', b) = last'.ret)

\* C2: the item the 4-key Get returns is determined by the three smallest of
\* its four arguments: after Get(a) has returned an item, the search of Get(b)
\* finds that item for every b with the same three smallest values (any
\* permutation of a, any other largest value), and does not find it for any b
\* whose three smallest values differ; the item stores exactly those three.
ThreeSmallest == [][ThreeSmallestStep]_vars

\* a 4-key Get has found an existing item while another item is live
ThreeSmallestWitness ==
    /\ kind = 4 /\ last.op = "Get" /\ ~last.created
    /\ Cardinality(Live) = 2
    /\ heap[last.ret].p1 < heap[last.ret].p3

----------------------------------------------------------------------------
(* C3 *)

\* what C3 asks of a step
GetFinds(k) ==
    WithKey(heap, k) # {} =>
       /\ last'.ret \in WithKey(heap, k)
       /\ UNCHANGED tvars
GetIdempotentStep ==
    /\ QueryStep =>
         /\ \A p1, p2 \in Keys2 : Get2(p1, p2) => GetFinds(Canon2(p1, p2))
         /\ \A p1, p2, p3, p4 \in Keys4 :
               Get4(p1, p2, p3, p4) => GetFinds(Canon4(p1, p2, p3, p4))
    /\ \A x, y \in DOMAIN heap' : KeyOf(heap'[x]) = KeyOf(heap'[y]) => x = y

\* C3: a Get whose canonical key belongs to a live item returns that item and
\* changes nothing but the two counters (no id is allocated, the chains, the
\* id index and the touched-bucket list stay); so no two live items have the
\* same key.
GetIdempotent == [][GetIdempotentStep]_vars

\* a Get has returned an existing item
GetIdempotentWitness ==
    /\ last.op = "Get" /\ ~last.created /\ last.ret \in Live
    /\ Cardinality(Live) = 2

----------------------------------------------------------------------------
(* C4 *)

\* C4: when a fresh iterator over an unchanged table has become NULL, it has
\* yielded every live item exactly once, and it never yields a deleted item.
IteratorVisitsAll ==
    /\ it.live => \A i \in DOMAIN visited : visited[i] \in Live
    /\ (it.live /\ it.cur_item = NULL) => \A x \in Live : Occurs(visited, x) = 1

----------------------------------------------------------------------------
(* C5 *)

\* what C5 asks of a step; a step that leaves the table, the items, the id
\* generator and the id index alone changes no answer of Peek
CreatedBy(a) == last'.op = "Get" /\ last'.created /\ KeyOf(heap'[last'.ret]) = Canon(a)
DeleteThenAbsentStep ==
    (pc = "ready" /\ tvars' # tvars) =>
      /\ \A item \in Live :
            (last'.op = "Delete" /\ Deleted(item)) =>
               /\ \A a \in AllArgs :
                     Canon(a) = KeyOf(heap[item]) => PeekNode(table', heap', a) = NULL
               /\ ArrayRead(id_to_item', heap[item].id) = {NULL}
      /\ \A a \in AllArgs :
            (PeekNode(table, heap, a) = NULL /\ PeekNode(table', heap', a) # NULL)
               => CreatedBy(a)
      /\ \A id \in 0 .. MaxItems :
            (ArrayRead(id_to_item, id) = {NULL} /\ ArrayRead(id_to_item', id) # {NULL})
               => (last'.op = "Get" /\ last'.created /\ heap'[last'.ret].id = id)

\* C5: after Delete(item), Peek with any arguments whose canonical key is the
\* item's key finds nothing and Peek(item.id) is NULL; a key that Peek does not
\* find, and an id whose slot is NULL, stay so until a Get creates an item with
\* that key, or with that id.
DeleteThenAbsent == [][DeleteThenAbsentStep]_vars

\* an item has been deleted while another stays
DeleteThenAbsentWitness ==
    /\ pc = "ready" /\ last.op = "Delete"
    /\ Live # {} /\ id_gen.reusable # <<>>

----------------------------------------------------------------------------
(* C6 *)

\* what C6 asks of a step
UniqueIdsStep ==
    /\ \A x, y \in DOMAIN heap' : heap'[x].id = heap'[y].id => x = y
    /\ (QueryStep /\ last'.op = "Get" /\ last'.created) =>
          WithId(heap, heap'[last'.ret].id) = {}
    /\ \A item \in Live :
          Deleted(item) =>
             /\ Occurs(id_gen.reusable, heap[item].id) = 0
             /\ Occurs(id_gen'.reusable, heap[item].id) = 1
             /\ Len(id_gen'.reusable) = Len(id_gen.reusable) + 1
             /\ heap[item].id \in { g.id : g \in IdGenGet(id_gen') }

\* C6: no two live items have the same id; the id a Get gives to the item it
\* creates is not the id of an item live before; Delete adds the id of the
\* item to the released ids of the generator once, where it was not, so that
\* the generator may hand it out again.
UniqueIds == [][UniqueIdsStep]_vars

\* a Get has created an item with an id that an earlier item had
UniqueIdsWitness ==
    /\ last.op = "Get" /\ last.created
    /\ heap[last.ret].id < id_gen.next - 1

----------------------------------------------------------------------------
(* C7 *)

\* C7: the constructor aborts for every size that is not a power of two, 0
\* and the negative sizes included, and for no power of two; when it does not
\* abort, all buckets are empty, all are flagged new and the counters are 0.
CtorPowerOfTwo ==
    pc # "new" =>
      LET size == mask + 1
      IN  /\ pc = "error" <=> ~IsPow2(size)
          /\ pc = "ready" =>
                /\ DOMAIN table = 0 .. size - 1
                /\ DOMAIN new_bin = 0 .. size - 1
                /\ \A b \in 0 .. size - 1 : table[b] = NULL /\ new_bin[b] = 1
                /\ nqueries = 0 /\ ncollisions = 0

----------------------------------------------------------------------------
(* C8 *)

\* what C8 asks of a step
PeekFrameStep ==
    QueryStep =>
      \A a \in AllArgs :
         PeekCall(a) =>
            /\ IF WithKey(heap, Canon(a)) # {}
               THEN last'.ret \in WithKey(heap, Canon(a))
               ELSE last'.ret = NULL
            /\ ~last'.created
            /\ UNCHANGED tvars

\* C8: Peek with keys creates nothing: it returns the live item whose key is
\* the canonical key of the arguments if there is one and NULL otherwise, and
\* leaves the chains, the id index, the touched-bucket list and the id
\* generator as they were.
PeekFrame == [][PeekFrameStep]_vars

\* a Peek has found an item, in a chain of two
PeekFrameWitness ==
    /\ last.op = "Peek" /\ last.ret \in Live
    /\ \E x \in Live : heap[x].next # NULL

----------------------------------------------------------------------------
(* C9 *)

\* what C9 asks of a step
PeekIdStep ==
    \A id \in Ids :
       PeekId(id) =>
          /\ pc' = "ready"
          /\ IF WithId(heap, id) # {} THEN last'.ret \in WithId(heap, id)
             ELSE last'.ret = NULL

\* C9: Peek(id) returns the live item whose id is id, and NULL for every id
\* that no live item has: a released id, an id never handed out, an id at or
\* beyond the length of the id index.
PeekIdLiveOrAbsent == [][PeekIdStep]_vars

----------------------------------------------------------------------------
(* C10 *)

\* what C10 asks of a step
DeleteCandidates ==
    { <<x, heap[x]>> : x \in Live } \cup { <<FOREIGN, r>> : r \in ForeignItems }
DeleteAbsentStep ==
    pc = "ready" =>
      \A c \in DeleteCandidates :
         (c[1] \notin Chain(hashItem(c[2])) /\ Delete(c[1], c[2])) =>
            /\ pc' = "error"
            /\ UNCHANGED tvars

\* C10: Delete of an item that is not in the chain of the bucket its key
\* hashes to aborts, and then no chain, no slot of the id index and no
\* released id has changed.
DeleteAbsentIsFatal == [][DeleteAbsentStep]_vars

\* Delete has aborted on a table that holds an item
DeleteAbsentIsFatalWitness ==
    /\ pc = "error" /\ last.op = "Delete"
    /\ Live # {}

----------------------------------------------------------------------------
(* C11 *)

\* C11: when the table has been destroyed, every item that was live has been
\* deleted, and none was deleted twice.
DestructorDeletesAll ==
    pc = "destroyed" =>
       /\ heap = <<>>
       /\ \A x \in Range(visited) : Occurs(visited, x) = 1

----------------------------------------------------------------------------
(* C12 *)

\* what C12 asks of a step
IterationOrderStep ==
    /\ CreateStep =>
          LET idx == hashItem(heap'[last'.ret])
          IN  /\ ChainSeq(heap', table'[idx]) = <<last'.ret>> \o ChainSeq(heap, table[idx])
              /\ used_bins' = IF idx \in Range(used_bins) THEN used_bins
                              ELSE Append(used_bins, idx)
    /\ (pc = "ready" /\ ~CreateStep) => used_bins' = used_bins
    /\ it'.live => IsPrefix(visited', ChainsOf(table', heap', used_bins'))

\* C12: what a fresh iterator over an unchanged table has yielded is at all
\* times the beginning of: the chains of the touched-bucket list, in the order
\* of the list, each from its head on.  A Get that creates an item puts it at
\* the head of its chain (so a chain runs from the most recently created item
\* to the oldest) and puts the bucket at the end of the list if it is not in
\* it (so the list is in the order of the first items); nothing else changes
\* the list.
IterationOrder == [][IterationOrderStep]_vars

\* the iterator has yielded a chain of two items and then an item of the next
\* bucket
IterationOrderWitness ==
    /\ it.live /\ Len(visited) = 3
    /\ heap[visited[1]].next = visited[2]
    /\ heap[visited[2]].next = NULL

----------------------------------------------------------------------------
(* C13 *)

\* C13: each live item is once in the chain of the bucket its stored key
\* hashes to and in no other chain, the slot of its id in the id index points
\* to it, and every slot of an id that no live item has is NULL.
ChainsAndIndex ==
    /\ \A x \in Live : \A b \in DOMAIN table :
          Occurs(ChainSeq(heap, table[b]), x) = IF b = hashItem(heap[x]) THEN 1 ELSE 0
    /\ \A x \in Live : ArrayRead(id_to_item, heap[x].id) = {x}
    /\ \A id \in 0 .. Len(id_to_item) - 1 :
          WithId(heap, id) = {} => ArrayRead(id_to_item, id) = {NULL}

\* two items share a chain, a third id has been released
ChainsAndIndexWitness ==
    /\ pc = "ready" /\ last.op = "Delete"
    /\ \E x \in Live : heap[x].next # NULL
    /\ \E id \in 0 .. Len(id_to_item) - 1 : WithId(heap, id) = {}

----------------------------------------------------------------------------
(* C14 *)

SortKeys == (0 - MaxSortKey) .. MaxSortKey

\* sort4 gives its four inputs in ascending order: the same values, each as
\* many times as given, and the first three are the three smallest
Sort4Sorts ==
    \A a, b, c, d \in SortKeys :
       LET in == <<a, b, c, d>>
           out == sort4(a, b, c, d)
       IN  /\ out[1] <= out[2] /\ out[2] <= out[3] /\ out[3] <= out[4]
           /\ \A v \in SortKeys : Occurs(out, v) = Occurs(in, v)
           /\ <<out[1], out[2], out[3]>> = Canon4(a, b, c, d)

\* what C14 asks of a step
CanonicalKeysStep ==
    /\ \A x \in DOMAIN heap' :
          /\ heap'[x].p1 <= heap'[x].p2
          /\ kind = 4 => heap'[x].p2 <= heap'[x].p3
    /\ CreateStep =>
          \A a \in AllArgs : GetCall(a) => KeyOf(heap'[last'.ret]) = Canon(a)
    /\ Sort4Sorts

\* C14: every live 2-key item has p1 <= p2 and every live 4-key item has
\* p1 <= p2 <= p3; the key of the item a Get creates is the canonical form of
\* the arguments of that Get (the pair ascending, the three smallest of the
\* four ascending); sort4 sorts its four inputs, equal values included.
CanonicalKeys == [][CanonicalKeysStep]_vars

\* a 4-key Get has created an item with two equal keys above a smaller one
CanonicalKeysWitness ==
    /\ kind = 4 /\ last.op = "Get" /\ last.created
    /\ heap[last.ret].p1 < heap[last.ret].p2
    /\ heap[last.ret].p2 = heap[last.ret].p3

----------------------------------------------------------------------------
(* C15 *)

\* what C15 asks of a step
TouchedBucketsStep ==
    /\ IF CreateStep
       THEN LET idx == hashItem(heap'[last'.ret])
            IN  IF idx \in Range(used_bins) THEN used_bins' = used_bins
                ELSE table[idx] = NULL /\ used_bins' = Append(used_bins, idx)
       ELSE used_bins' = used_bins
    /\ \A b \in DOMAIN table' :
          /\ Occurs(used_bins', b) <= 1
          /\ new_bin'[b] = 1 <=> b \notin Range(used_bins')
          /\ table'[b] # NULL => b \in Range(used_bins')
    /\ Range(used_bins') \subseteq DOMAIN table'

\* C15: the touched-bucket list changes only when a Get puts an item into a
\* bucket that is not in the list, and then that bucket, empty until then, is
\* appended; a Get into a bucket of the list, be it emptied by Delete, and
\* every other call leave the list as it is.  So the list holds the buckets
\* that have received an item, each once; the flag of a bucket is set iff the
\* bucket is not in the list; every bucket with an item is in the list.
TouchedBuckets == [][TouchedBucketsStep]_vars

\* the one bucket of a table has been filled, emptied and filled again
TouchedBucketsWitness ==
    /\ mask = 0 /\ last.op = "Get" /\ last.created
    /\ Cardinality(Live) = 1 /\ id_gen.next = 2
    /\ used_bins = <<0>>

----------------------------------------------------------------------------
(* C16 *)

\* the chain that a search for the canonical key k runs through
SearchedChain(k) ==
    ChainSeq(heap, table[IF kind = 2 THEN hash2(k[1], k[2])
                         ELSE hash3(k[1], k[2], k[3])])

\* the key comparisons of a search for k along q: one for each item that
\* has no item of key k before it
Comparisons(q, k) ==
    Cardinality({ i \in DOMAIN q : \A j \in 1 .. i - 1 : KeyOf(heap[q[j]]) # k })

\* the advances to the next element: one for each item that has no item of
\* key k before it and has not key k itself
Advances(q, k) ==
    Cardinality({ i \in DOMAIN q : \A j \in 1 .. i : KeyOf(heap[q[j]]) # k })

\* the step is a search, by Get or Peek, with arguments a
SearchCall(a) ==
    \/ last'.op = "Get" /\ GetCall(a)
    \/ last'.op = "Peek" /\ PeekCall(a)

\* C16 as stated: a search adds its key comparisons to the query counter and
\* its advances to the collision counter; no other call changes the counters.
CountersPerComparisonStep ==
    /\ QueryStep =>
          \A a \in AllArgs :
             SearchCall(a) =>
                /\ nqueries' = nqueries + Comparisons(SearchedChain(Canon(a)), Canon(a))
                /\ ncollisions' = ncollisions + Advances(SearchedChain(Canon(a)), Canon(a))
    /\ last'.op \notin {"Get", "Peek"} => UNCHANGED <<nqueries, ncollisions>>

\* C16 (as stated): the query counter counts the key comparisons
CountersPerComparison == [][CountersPerComparisonStep]_vars

\* what the amended C16 asks of a step
CountersPerSearchStep ==
    /\ last'.op \in {"Get", "Peek"} =>
          /\ nqueries' = nqueries + 1
          /\ \A a \in AllArgs :
                SearchCall(a) =>
                   LET k == Canon(a)
                   IN  ncollisions' = ncollisions + Advances(SearchedChain(k), k)
    /\ last'.op \notin {"Get", "Peek"} => UNCHANGED <<nqueries, ncollisions>>

\* C16 (amended): a search by Get or Peek adds one to the query counter,
\* however many keys it compares, and adds one to the collision counter for
\* each advance to the next element of the chain; no other call changes the
\* counters.
CountersPerSearch == [][CountersPerSearchStep]_vars

\* a Peek has found the second item of a chain
CountersPerSearchWitness ==
    /\ last.op = "Peek" /\ last.ret \in Live
    /\ \E x \in Live : heap[x].next = last.ret
    /\ ncollisions > 0

----------------------------------------------------------------------------
(* C17 *)

\* the ids of the index that no item of h has
FreeIds(h, arr) == { id \in 0 .. Len(arr) - 1 : WithId(h, id) = {} }

\* what C17 asks of a step
DenseIdsStep ==
    /\ CreateStep =>
          LET id == heap'[last'.ret].id
              free == FreeIds(heap, id_to_item)
          IN  /\ free = {} => id = Cardinality(Live)
              /\ Cardinality(free) = 1 => id \in free
    /\ \A item \in Live :
          (last'.op = "Delete" /\ Deleted(item)) =>
             FreeIds(heap', id_to_item') = FreeIds(heap, id_to_item) \cup {heap[item].id}

\* C17: a Get that creates an item while no id is free gives it the number of
\* live items as id, so that the items of a table without deletions get 0, 1,
\* 2, ... in the order of their creation; Delete frees the id of its item;
\* a Get that creates an item while exactly one id is free gives it that id.
DenseIds == [][DenseIdsStep]_vars

\* the scenario: ids 0 and 1 were given, the item of id 0 was deleted, and
\* the item just created has id 0
DenseIdsWitness ==
    /\ last.op = "Get" /\ last.created
    /\ heap[last.ret].id = 0
    /\ id_gen.next = 2 /\ id_gen.reusable = <<>>
    /\ Cardinality(Live) = 2

----------------------------------------------------------------------------
(* C18 *)

\* what C18 asks of a step
IteratorStopsStep ==
    /\ it'.live =>
          /\ Len(visited') <= Cardinality(DOMAIN heap')
          /\ \A x \in Range(visited') : Occurs(visited', x) = 1
          /\ it'.cur_item # NULL => visited'[Len(visited')] = it'.cur_item
    /\ IteratorInc =>
          /\ it.cur_item = NULL => (it'.cur_item = NULL /\ visited' = visited)
          /\ it'.cur_item # NULL => Len(visited') = Len(visited) + 1
    /\ IteratorNew =>
          /\ Live = {} => it'.cur_item = NULL
          /\ Len(visited') <= 1

\* C18: an iterator over an unchanged table that is not NULL stands on an
\* item it has not stood on before, and each increment that leaves it not
\* NULL is one more such item: it is NULL after at most as many increments as
\* there are live items.  An increment of a NULL iterator leaves it NULL, and
\* an iterator made on a table without live items is NULL at once.
IteratorStops == [][IteratorStopsStep]_vars

\* the iterator has become NULL after it stood on two items
IteratorStopsWitness ==
    /\ it.live /\ it.cur_item = NULL /\ last.op = "++"
    /\ Len(visited) >= 2

\* an iterator made on a table whose touched buckets were all emptied
IteratorStopsEmptiedWitness ==
    /\ it.live /\ it.cur_item = NULL /\ last.op = "Iterator"
    /\ Live = {} /\ used_bins # <<>>

----------------------------------------------------------------------------
(* C19 *)

\* the sequence q without the item x
Without(q, x) == SelectSeq(q, LAMBDA y : y # x)

\* what C19 asks of a step
DeleteFrameStep ==
    \A item \in Live :
       (last'.op = "Delete" /\ Deleted(item)) =>
          /\ DOMAIN heap' = Live \ {item}
          /\ \A x \in Live \ {item} :
                /\ heap'[x].id = heap[x].id
                /\ KeyOf(heap'[x]) = KeyOf(heap[x])
                /\ \A a \in AllArgs :
                      Canon(a) = KeyOf(heap[x]) => PeekNode(table', heap', a) = x
                /\ ArrayRead(id_to_item', heap[x].id) = {x}
          /\ \A b \in DOMAIN table :
                ChainSeq(heap', table'[b]) = Without(ChainSeq(heap, table[b]), item)
          /\ used_bins' = used_bins
          /\ new_bin' = new_bin

\* C19: Delete of an item of the table deletes that item and no other; every
\* other live item keeps its id and its key, is found by Peek with any
\* arguments of its canonical key and by Peek(id); every chain is the chain
\* it was without the item, in the same order; the touched-bucket list and
\* the flags are unchanged.
DeleteFrame == [][DeleteFrameStep]_vars

\* an item has been deleted from a chain of three
DeleteFrameWitness ==
    /\ pc = "ready" /\ last.op = "Delete"
    /\ mask = 0 /\ Cardinality(Live) = 2 /\ id_gen.next = 3
    /\ \E x \in Live : heap[x].next # NULL

----------------------------------------------------------------------------
(* C20 *)

\* C20: a call of hash on a table of a power-of-two size returns an index in
\* 0 .. size-1 for every key, and a key has one index: each call with it
\* gives the same.
HashIndexInRange ==
    last.op = "hash" =>
       /\ IsPow2(mask + 1)
       /\ pc = "ready"
       /\ 0 <= last.ret /\ last.ret <= mask
       /\ \A o \in HashOutcomes(last.key) : o.ret = last.ret /\ o.pc = pc

\* whenever hash returns, also with a wrapped sum, the index is in 0 .. size-1
HashReturnsInRange ==
    (last.op = "hash" /\ pc = "ready") => (0 <= last.ret /\ last.ret <= mask)

====
